---- MODULE Spec2Model ----
(***************************************************************************)
(* Model of src/workflow.py: WorkflowEngine (define_workflow,              *)
(* execute_workflow, get_stats).  Callers are threads that share one       *)
(* engine; execute_workflow is split at its loop iterations, the points    *)
(* where a thread can be pre-empted (the agent call).                      *)
(***************************************************************************)
EXTENDS Integers, Sequences, FiniteSets, TLC

\* ---- bounds of the model ------------------------------------------------
MaxDefines == 3
MaxExecutions == 2
MaxSteps == 2

Threads == {"t1", "t2"}
WorkflowIds == {"W1", "W2"}
Names == {"n1", "n2"}
AgentIds == {"a1", "a2"}
TaskTypes == {"task"}

\* ---- inputs --------------------------------------------------------------
\* A step descriptor (a dict of the caller): the keys the engine reads
\* (agent_id, task_type) and the predecessor set the spec speaks of, which
\* refers to earlier positions of the list.  The engine treats all agent
\* ids alike, so the first step is given the agent a1: every other list is
\* one of these with the agent ids renamed.
StepAt(k) == [agent_id : IF k = 1 THEN {"a1"} ELSE AgentIds, task_type : TaskTypes, deps : SUBSET (1..(k - 1))]

StepLists == UNION {{s \in [1..n -> UNION {StepAt(k) : k \in 1..n}] :
                        \A k \in 1..n : s[k] \in StepAt(k)} : n \in 0..MaxSteps}

\* ---- dict: insertion-ordered mapping, a sequence of <<key, value>> ------
DictKeys(d) == [i \in 1..Len(d) |-> d[i][1]]

DictHas(d, k) == \E i \in 1..Len(d) : d[i][1] = k

DictGet(d, k) == d[CHOOSE i \in 1..Len(d) : d[i][1] = k][2]

\* Mutants of DictSet: an assignment that does not replace a stored key, and
\* one that moves a replaced key to the end.
DictSetKeepFirst(d, k, v) ==
    IF \E i \in 1..Len(d) : d[i][1] = k THEN d ELSE Append(d, <<k, v>>)

DictSetMoveToEnd(d, k, v) == Append(SelectSeq(d, LAMBDA e : e[1] # k), <<k, v>>)

DictSet(d, k, v) ==
    IF DictHas(d, k)
    THEN [i \in 1..Len(d) |-> IF d[i][1] = k THEN <<k, v>> ELSE d[i]]
    ELSE Append(d, <<k, v>>)

\* ---- the body of the loop of execute_workflow ---------------------------
AgentPresent(step, agts) == step.agent_id \in agts

\* Mutant of StepOutcome: a step whose agent is absent is marked skipped.
StepOutcomeSkipMissing(step, agts, success) ==
    IF ~(step.agent_id \in agts)
    THEN [agent_id |-> step.agent_id, status |-> "skipped",
          error |-> "Agent not found"]
    ELSE [agent_id |-> step.agent_id, task_type |-> step.task_type,
          status |-> IF success THEN "completed" ELSE "failed"]

\* The record appended to execution["steps"] for one step; success is the
\* success flag of the TaskResult (unused when the agent is absent).
StepOutcome(step, agts, success) ==
    IF ~AgentPresent(step, agts)
    THEN [agent_id |-> step.agent_id, status |-> "failed",
          error |-> "Agent not found"]
    ELSE [agent_id |-> step.agent_id, task_type |-> step.task_type,
          status |-> IF success THEN "completed" ELSE "failed"]

\* Agent.execute_task(task) -> TaskResult: the success flags an agent can
\* report (a task that failed internally is reported with success = False).
TaskResultSuccess == BOOLEAN

\* Mutant of AppendRecord: the record is inserted at the front.
AppendRecordFront(history, rec) == <<rec>> \o history

\* self.execution_history.append(execution)
AppendRecord(history, rec) == Append(history, rec)

get_stats_value(wfs, history) ==
    [workflows_defined |-> Len(wfs),
     workflows_executed |-> Len(history),
     workflows |-> DictKeys(wfs)]

NotFound == [success |-> FALSE, error |-> "Workflow not found"]

VARIABLES workflows, execution_history, defines,
          pc, workflow, agents, idx, execution, invoked, ret,
          first_defined, found

vars == <<workflows, execution_history, defines,
          pc, workflow, agents, idx, execution, invoked, ret,
          first_defined, found>>

locals == <<pc, workflow, agents, idx, execution>>

NoValue == [op |-> "none", workflow_id |-> "none", value |-> <<>>]

\* first_defined and found are history variables: the ids in the order of
\* their first definition, and the number of execute_workflow calls whose id
\* was stored when the call was made.
Init ==
    /\ workflows = <<>>
    /\ execution_history = <<>>
    /\ defines = 0
    /\ pc = [t \in Threads |-> "idle"]
    /\ workflow = [t \in Threads |-> <<>>]
    /\ agents = [t \in Threads |-> {}]
    /\ idx = [t \in Threads |-> 0]
    /\ execution = [t \in Threads |-> <<>>]
    /\ invoked = [t \in Threads |-> <<>>]
    /\ ret = NoValue
    /\ first_defined = <<>>
    /\ found = 0

\* datetime.now().isoformat(): no operation of the engine reads a timestamp
\* back, so the model keeps the three timestamp fields and abstracts their
\* value to one token.
Now == "T"

\* ret is the latest return: the operation, the id it was called with and the
\* value it returned.
Returned(name, id, v) == [op |-> name, workflow_id |-> id, value |-> v]

define_workflow(t, workflow_id, name, steps) ==
    /\ pc[t] = "idle"
    /\ defines < MaxDefines
    /\ defines' = defines + 1
    /\ LET wf == [workflow_id |-> workflow_id, name |-> name,
                  steps |-> steps, created_at |-> Now]
       IN /\ workflows' = DictSet(workflows, workflow_id, wf)
          /\ ret' = Returned("define_workflow", workflow_id, wf)
    /\ first_defined' = IF DictHas(workflows, workflow_id) THEN first_defined
                        ELSE Append(first_defined, workflow_id)
    /\ UNCHANGED <<execution_history, locals, invoked, found>>

\* Mutants of execute_not_found: the failed call is logged in the history;
\* the unknown id is given an empty definition (a defaultdict).
execute_not_found_logged(t, workflow_id, agts) ==
    /\ pc[t] = "idle"
    /\ ~DictHas(workflows, workflow_id)
    /\ Len(execution_history) < MaxExecutions
    /\ ret' = Returned("execute_workflow", workflow_id, NotFound)
    /\ execution_history' = Append(execution_history,
           [workflow_id |-> workflow_id, started_at |-> Now, steps |-> <<>>,
            completed_at |-> Now])
    /\ UNCHANGED <<workflows, defines, locals, invoked, first_defined, found>>

execute_not_found_autodefine(t, workflow_id, agts) ==
    /\ pc[t] = "idle"
    /\ ~DictHas(workflows, workflow_id)
    /\ ret' = Returned("execute_workflow", workflow_id, NotFound)
    /\ workflows' = Append(workflows, <<workflow_id,
           [workflow_id |-> workflow_id, name |-> "n1", steps |-> <<>>,
            created_at |-> Now]>>)
    /\ first_defined' = Append(first_defined, workflow_id)
    /\ UNCHANGED <<execution_history, defines, locals, invoked, found>>

\* execute_workflow, lines 35-36: the id is not stored.
execute_not_found(t, workflow_id, agts) ==
    /\ pc[t] = "idle"
    /\ ~DictHas(workflows, workflow_id)
    /\ ret' = Returned("execute_workflow", workflow_id, NotFound)
    /\ UNCHANGED <<workflows, execution_history, defines, locals,
                   invoked, first_defined, found>>

\* execute_workflow, lines 35-43: the id is stored; the record is created.
execute_begin(t, workflow_id, agts) ==
    /\ pc[t] = "idle"
    /\ found < MaxExecutions
    /\ DictHas(workflows, workflow_id)
    /\ found' = found + 1
    /\ execution' = [execution EXCEPT ![t] =
           [workflow_id |-> workflow_id, started_at |-> Now, steps |-> <<>>]]
    /\ workflow' = [workflow EXCEPT ![t] = DictGet(workflows, workflow_id)]
    /\ agents' = [agents EXCEPT ![t] = agts]
    /\ idx' = [idx EXCEPT ![t] = 1]
    /\ invoked' = [invoked EXCEPT ![t] = <<>>]
    /\ pc' = [pc EXCEPT ![t] = "loop"]
    /\ UNCHANGED <<workflows, execution_history, defines, ret, first_defined>>

\* Mutants of execute_step.
\* The outcome of a step whose agent is absent is dropped.
execute_step_dropping(t) ==
    /\ pc[t] = "loop"
    /\ idx[t] <= Len(workflow[t].steps)
    /\ LET step == workflow[t].steps[idx[t]]
       IN \E success \in TaskResultSuccess :
            /\ execution' = [execution EXCEPT ![t].steps =
                   IF AgentPresent(step, agents[t])
                   THEN Append(@, StepOutcome(step, agents[t], success))
                   ELSE @]
            /\ invoked' = [invoked EXCEPT ![t] =
                   IF AgentPresent(step, agents[t])
                   THEN Append(@, [step |-> idx[t], success |-> success])
                   ELSE @]
    /\ idx' = [idx EXCEPT ![t] = @ + 1]
    /\ UNCHANGED <<workflows, execution_history, defines, pc, workflow,
                   agents, ret, first_defined, found>>

\* After a failed step the remaining steps are skipped without a call.
execute_step_skip_after_failure(t) ==
    /\ pc[t] = "loop"
    /\ idx[t] <= Len(workflow[t].steps)
    /\ LET step == workflow[t].steps[idx[t]]
           failed == \E j \in 1..Len(execution[t].steps) :
                        execution[t].steps[j].status # "completed"
       IN \E success \in TaskResultSuccess :
            /\ execution' = [execution EXCEPT ![t].steps =
                   IF failed
                   THEN Append(@, [agent_id |-> step.agent_id, status |-> "skipped"])
                   ELSE Append(@, StepOutcome(step, agents[t], success))]
            /\ invoked' = [invoked EXCEPT ![t] =
                   IF AgentPresent(step, agents[t]) /\ ~failed
                   THEN Append(@, [step |-> idx[t], success |-> success])
                   ELSE @]
    /\ idx' = [idx EXCEPT ![t] = @ + 1]
    /\ UNCHANGED <<workflows, execution_history, defines, pc, workflow,
                   agents, ret, first_defined, found>>

\* The record under construction is one object shared by all calls.
execute_step_shared(t) ==
    /\ pc[t] = "loop"
    /\ idx[t] <= Len(workflow[t].steps)
    /\ LET step == workflow[t].steps[idx[t]]
           shared == CHOOSE u \in Threads : pc[u] = "loop"
       IN \E success \in TaskResultSuccess :
            /\ execution' = [execution EXCEPT ![shared].steps =
                   Append(@, StepOutcome(step, agents[t], success))]
            /\ invoked' = [invoked EXCEPT ![t] =
                   IF AgentPresent(step, agents[t])
                   THEN Append(@, [step |-> idx[t], success |-> success])
                   ELSE @]
    /\ idx' = [idx EXCEPT ![t] = @ + 1]
    /\ UNCHANGED <<workflows, execution_history, defines, pc, workflow,
                   agents, ret, first_defined, found>>

\* A step whose agent reports a failure is tried once more.
execute_step_retry(t) ==
    /\ pc[t] = "loop"
    /\ idx[t] <= Len(workflow[t].steps)
    /\ LET step == workflow[t].steps[idx[t]]
           retried == \E i \in 1..Len(invoked[t]) : invoked[t][i].step = idx[t]
       IN \E success \in TaskResultSuccess :
            LET again == AgentPresent(step, agents[t]) /\ ~success /\ ~retried
            IN /\ execution' = [execution EXCEPT ![t].steps =
                      IF again THEN @
                      ELSE Append(@, StepOutcome(step, agents[t], success))]
               /\ invoked' = [invoked EXCEPT ![t] =
                      IF AgentPresent(step, agents[t])
                      THEN Append(@, [step |-> idx[t], success |-> success])
                      ELSE @]
               /\ idx' = [idx EXCEPT ![t] = IF again THEN @ ELSE @ + 1]
    /\ UNCHANGED <<workflows, execution_history, defines, pc, workflow,
                   agents, ret, first_defined, found>>

\* execute_workflow, lines 46-75: one iteration of the loop over the steps.
execute_step(t) ==
    /\ pc[t] = "loop"
    /\ idx[t] <= Len(workflow[t].steps)
    /\ LET step == workflow[t].steps[idx[t]]
       IN \E success \in TaskResultSuccess :
            /\ execution' = [execution EXCEPT ![t].steps =
                   Append(@, StepOutcome(step, agents[t], success))]
            /\ invoked' = [invoked EXCEPT ![t] =
                   IF AgentPresent(step, agents[t])
                   THEN Append(@, [step |-> idx[t], success |-> success])
                   ELSE @]
    /\ idx' = [idx EXCEPT ![t] = @ + 1]
    /\ UNCHANGED <<workflows, execution_history, defines, pc, workflow,
                   agents, ret, first_defined, found>>

\* execute_workflow, lines 77-80: the loop is over; the record is appended
\* to the history and returned, and the locals of the call are dropped.
execute_end(t) ==
    /\ pc[t] = "loop"
    /\ idx[t] > Len(workflow[t].steps)
    /\ LET rec == [workflow_id |-> execution[t].workflow_id,
                   started_at |-> execution[t].started_at,
                   steps |-> execution[t].steps,
                   completed_at |-> Now]
       IN /\ execution_history' = AppendRecord(execution_history, rec)
          /\ ret' = Returned("execute_workflow", rec.workflow_id, rec)
    /\ pc' = [pc EXCEPT ![t] = "idle"]
    /\ workflow' = [workflow EXCEPT ![t] = <<>>]
    /\ agents' = [agents EXCEPT ![t] = {}]
    /\ idx' = [idx EXCEPT ![t] = 0]
    /\ execution' = [execution EXCEPT ![t] = <<>>]
    /\ invoked' = [invoked EXCEPT ![t] = <<>>]
    /\ UNCHANGED <<workflows, defines, first_defined, found>>

get_stats(t) ==
    /\ pc[t] = "idle"
    /\ ret' = Returned("get_stats", "none",
                      get_stats_value(workflows, execution_history))
    /\ UNCHANGED <<workflows, execution_history, defines, locals,
                   invoked, first_defined, found>>

Call(t) ==
    \/ \E id \in WorkflowIds, name \in Names, steps \in StepLists :
         define_workflow(t, id, name, steps)
    \/ \E id \in WorkflowIds, agts \in SUBSET AgentIds :
         execute_not_found(t, id, agts)
    \/ \E id \in WorkflowIds, agts \in SUBSET AgentIds :
         execute_begin(t, id, agts)
    \/ execute_step(t)
    \/ execute_end(t)
    \/ get_stats(t)

\* One caller: the calls follow one another.
Next == Call("t1")

Spec == Init /\ [][Next]_vars

\* ---- several callers at once ---------------------------------------------
\* The stores the threads start from: every id is either not stored or was
\* defined once.
StoreOf(ids) ==
    {d \in [1..Len(ids) -> WorkflowIds \X
               [workflow_id : WorkflowIds, name : {"n1"}, steps : StepLists,
                created_at : {Now}]] :
        \A i \in 1..Len(ids) : d[i][1] = ids[i] /\ d[i][2].workflow_id = ids[i]}

Stores == UNION {StoreOf(ids) : ids \in {<<>>, <<"W1">>, <<"W2">>,
                                         <<"W1", "W2">>, <<"W2", "W1">>}}

InitThreads ==
    /\ workflows \in Stores
    /\ execution_history = <<>>
    /\ defines = Len(workflows)
    /\ pc = [t \in Threads |-> "idle"]
    /\ workflow = [t \in Threads |-> <<>>]
    /\ agents = [t \in Threads |-> {}]
    /\ idx = [t \in Threads |-> 0]
    /\ execution = [t \in Threads |-> <<>>]
    /\ invoked = [t \in Threads |-> <<>>]
    /\ ret = NoValue
    /\ first_defined = DictKeys(workflows)
    /\ found = 0

NextThreads ==
    \E t \in Threads :
        \/ \E id \in WorkflowIds, agts \in SUBSET AgentIds :
             execute_not_found(t, id, agts)
        \/ \E id \in WorkflowIds, agts \in SUBSET AgentIds :
             execute_begin(t, id, agts)
        \/ execute_step(t)
        \/ execute_end(t)

SpecThreads == InitThreads /\ [][NextThreads]_vars

\* ==== properties ===========================================================
Running(t) == pc[t] = "loop"

\* Thread t returns from execute_workflow with a record in this step.
Ends(t) == pc[t] = "loop" /\ pc'[t] = "idle"

\* Thread t runs one iteration of the loop in this step.
Steps(t) == pc[t] = "loop" /\ idx'[t] # idx[t] /\ pc'[t] = "loop"

\* define_workflow is called with this id in this step.
DefineCalled(id) ==
    defines' = defines + 1 /\ ret'.op = "define_workflow" /\ ret'.workflow_id = id

IsRecord(v) == "steps" \in DOMAIN v

AgentNotFound(agent_id) ==
    [agent_id |-> agent_id, status |-> "failed", error |-> "Agent not found"]

Terminal == {"completed", "failed", "skipped"}

\* The calls of execute_task made for step k in the run of thread t.
CallsOf(t, k) == {i \in 1..Len(invoked[t]) : invoked[t][i].step = k}

\* The steps that step k of a list depends on, directly or not.
RECURSIVE Ancestors(_, _)
Ancestors(steps, k) ==
    steps[k].deps \cup UNION {Ancestors(steps, j) : j \in steps[k].deps}

NoDeps(steps) == \A k \in 1..Len(steps) : steps[k].deps = {}

\* The positions up to n whose agent is in the map, in increasing order.
PresentSteps(steps, agts, n) ==
    SelectSeq([k \in 1..n |-> k], LAMBDA k : steps[k].agent_id \in agts)

DuplicateWorkflowError == [error |-> "DuplicateWorkflowError"]

\* ---- C1 -------------------------------------------------------------------
\* C1 as stated: define_workflow on an id that is already stored fails with
\* DuplicateWorkflowError and the stored definition stays the first one.
C1_DuplicateRejected ==
    [][\A id \in WorkflowIds :
          (DefineCalled(id) /\ DictHas(workflows, id)) =>
              /\ ret'.value = DuplicateWorkflowError
              /\ DictGet(workflows', id) = DictGet(workflows, id)]_vars

\* C1 amended: define_workflow on an id that is already stored does not fail;
\* it returns the new definition, which replaces the stored one (name and
\* steps of the latest call), while the ids keep their order and the
\* definitions of the other ids stay as they were.
C1_DuplicateReplaces ==
    [][\A id \in WorkflowIds :
          (DefineCalled(id) /\ DictHas(workflows, id)) =>
              /\ ret'.value \in [workflow_id : {id}, name : Names,
                                 steps : StepLists, created_at : {Now}]
              /\ DictGet(workflows', id) = ret'.value
              /\ DictKeys(workflows') = DictKeys(workflows)
              /\ \A other \in WorkflowIds \ {id} :
                    DictHas(workflows, other) =>
                        DictGet(workflows', other) = DictGet(workflows, other)]_vars

\* A second definition of the only stored id, with another name and steps.
C1_Witness ==
    /\ defines = 2
    /\ Len(workflows) = 1
    /\ ret.op = "define_workflow"
    /\ ret.value.name = "n2"
    /\ Len(ret.value.steps) = 2
    /\ DictGet(workflows, ret.workflow_id) = ret.value

\* ---- C2 -------------------------------------------------------------------
\* C2: execute_workflow on an id that is not stored returns the not-found
\* outcome, invokes no agent, starts no run and leaves the history and the
\* definition store as they were.
C2_NotFoundLeavesEngine ==
    [][\A id \in WorkflowIds :
          (/\ ~DictHas(workflows, id)
           /\ \/ ret' # ret /\ ret'.op = "execute_workflow" /\ ret'.workflow_id = id
              \/ \E t \in Threads : pc[t] = "idle" /\ pc'[t] = "loop"
                                     /\ execution'[t].workflow_id = id)
          => /\ ret'.value = NotFound
             /\ pc' = pc
             /\ invoked' = invoked
             /\ execution_history' = execution_history
             /\ workflows' = workflows]_vars

\* The not-found outcome, returned by an engine that holds a definition and a
\* record.
C2_Witness ==
    /\ ret.op = "execute_workflow"
    /\ ret.value = NotFound
    /\ ~DictHas(workflows, ret.workflow_id)
    /\ Len(workflows) = 1
    /\ Len(execution_history) = 1

\* ---- C3 -------------------------------------------------------------------
\* C3 as stated: a step with a failed or skipped ancestor is skipped and its
\* agent is not invoked; every other step ends completed or failed.
C3_SkipPropagation ==
    \A t \in Threads : Running(t) =>
        \A k \in 1..Len(execution[t].steps) :
            IF \E j \in Ancestors(workflow[t].steps, k) :
                   execution[t].steps[j].status \in {"failed", "skipped"}
            THEN execution[t].steps[k].status = "skipped" /\ CallsOf(t, k) = {}
            ELSE execution[t].steps[k].status \in {"completed", "failed"}

\* C3 amended: a failed step does not affect the steps that depend on it.  No
\* step is ever skipped: every step, whatever became of the steps it depends
\* on, has its agent invoked exactly when the agent is in the map, and ends
\* completed when that call reports success and failed otherwise.
C3_NoSkipPropagation ==
    \A t \in Threads : Running(t) =>
        \A k \in 1..Len(execution[t].steps) :
            /\ execution[t].steps[k].status \in {"completed", "failed"}
            /\ Cardinality(CallsOf(t, k)) =
                  IF workflow[t].steps[k].agent_id \in agents[t] THEN 1 ELSE 0
            /\ execution[t].steps[k].status = "completed" <=>
                  \E i \in CallsOf(t, k) : invoked[t][i].success

\* A step that depends on a failed step was run, and completed.
C3_Witness ==
    \E t \in Threads :
        /\ Running(t)
        /\ Len(execution[t].steps) = 2
        /\ workflow[t].steps[2].deps = {1}
        /\ execution[t].steps[1].status = "failed"
        /\ execution[t].steps[2].status = "completed"
        /\ CallsOf(t, 2) # {}

C5_AgentNotFound ==
    [][\A t \in Threads :
          /\ (/\ Steps(t)
              /\ ~(workflow[t].steps[idx[t]].agent_id \in agents[t]))
             => /\ execution'[t].steps =
                      Append(execution[t].steps,
                             AgentNotFound(workflow[t].steps[idx[t]].agent_id))
                /\ invoked' = invoked
                /\ idx'[t] = idx[t] + 1
          /\ (/\ Ends(t)
              /\ \E k \in 1..Len(workflow[t].steps) :
                    ~(workflow[t].steps[k].agent_id \in agents[t]))
             => /\ Len(execution[t].steps) = Len(workflow[t].steps)
                /\ ret'.value.steps = execution[t].steps
                /\ execution_history' = Append(execution_history, ret'.value)]_vars

\* A record in the history whose first step had no agent and whose second
\* step was run.
C5_Witness ==
    \E n \in 1..Len(execution_history) :
        /\ Len(execution_history[n].steps) = 2
        /\ execution_history[n].steps[1] =
              AgentNotFound(execution_history[n].steps[1].agent_id)
        /\ execution_history[n].steps[2].status = "completed"

\* ---- C6 -------------------------------------------------------------------
\* C6: the history is append-only.  A step changes it only when a run of a
\* stored workflow returns, and then by adding that run's record at the end;
\* every such return adds one record; the records already there keep their
\* place and content; the length is the number of finished runs.
C6_AppendOnly ==
    [][/\ execution_history' # execution_history =>
             /\ \E t \in Threads : Ends(t)
             /\ execution_history' = Append(execution_history, ret'.value)
       /\ \A t \in Threads : Ends(t) =>
             Len(execution_history') = Len(execution_history) + 1
       /\ SubSeq(execution_history', 1, Len(execution_history)) = execution_history
       /\ Len(execution_history') =
             found' - Cardinality({t \in Threads : Running(t)'})]_vars

\* The same id executed twice, with a definition call in between: two
\* records, both still there when get_stats is called afterwards.
C6_Witness ==
    /\ Len(execution_history) = 2
    /\ execution_history[1].workflow_id = execution_history[2].workflow_id
    /\ Len(execution_history[1].steps) # Len(execution_history[2].steps)
    /\ ret.op = "get_stats"

\* ---- C7 -------------------------------------------------------------------
\* C7: only define_workflow changes the definition store: a step of
\* execute_workflow (on a stored or an unknown id, with failing steps or
\* not) or of get_stats leaves every stored definition and the order of the
\* ids as they were.
C7_StoreReadOnly ==
    [][defines' = defines => workflows' = workflows]_vars

\* A run with a failed step has returned, an unknown id was then executed,
\* and the store holds what was defined.
C7_Witness ==
    /\ Len(workflows) = 1
    /\ Len(execution_history) = 1
    /\ \E k \in 1..Len(execution_history[1].steps) :
          execution_history[1].steps[k].status = "failed"
    /\ ret.value = NotFound
    /\ DictGet(workflows, execution_history[1].workflow_id).steps # <<>>

\* ---- C8 -------------------------------------------------------------------
\* C8: get_stats reports the number of distinct stored ids, the number of
\* execute_workflow calls made on a stored id (and finished), and the ids in
\* the order of their first definition.
C8_Stats ==
    [][(ret' # ret /\ ret'.op = "get_stats") =>
          /\ ret'.value.workflows_defined =
                Cardinality({first_defined[i] : i \in 1..Len(first_defined)})
          /\ ret'.value.workflows_executed =
                found - Cardinality({t \in Threads : Running(t)})
          /\ ret'.value.workflows = first_defined]_vars

\* Statistics after three definitions of two ids and two executions.
C8_Witness ==
    /\ ret.op = "get_stats"
    /\ defines = 3
    /\ ret.value.workflows_defined = 2
    /\ ret.value.workflows_executed = 2
    /\ ret.value.workflows = <<"W2", "W1">>

\* ---- C9 -------------------------------------------------------------------
\* The outcomes thread t has recorded are those of its own workflow, agents
\* map and agent calls.
OwnRecord(t) ==
    /\ execution[t].workflow_id = workflow[t].workflow_id
    /\ Len(execution[t].steps) = idx[t] - 1
    /\ \A k \in 1..Len(execution[t].steps) :
          /\ execution[t].steps[k].agent_id = workflow[t].steps[k].agent_id
          /\ IF workflow[t].steps[k].agent_id \in agents[t]
             THEN /\ Cardinality(CallsOf(t, k)) = 1
                  /\ execution[t].steps[k].status = "completed" <=>
                        \E i \in CallsOf(t, k) : invoked[t][i].success
             ELSE execution[t].steps[k] =
                     AgentNotFound(workflow[t].steps[k].agent_id)

\* C9: with calls of execute_workflow interleaved, every call fills its own
\* record with its own outcomes only; a return appends that record, complete,
\* at the end of the history and leaves the records of the other calls in
\* place; so the history holds one record per finished call.
C9_ConcurrentRuns ==
    [][/\ \A t \in Threads : Running(t)' => OwnRecord(t)'
       /\ \A t \in Threads : Ends(t) =>
             /\ Len(execution[t].steps) = Len(workflow[t].steps)
             /\ ret'.value.steps = execution[t].steps
             /\ ret'.value.workflow_id = execution[t].workflow_id
             /\ execution_history' = Append(execution_history, ret'.value)
       /\ Len(execution_history') =
             found' - Cardinality({t \in Threads : Running(t)'})]_vars

\* Two calls under way at once on different workflows, using different agent
\* maps, each with a first outcome recorded, after nothing else has finished.
C9_Witness ==
    /\ Running("t1") /\ Running("t2")
    /\ execution["t1"].workflow_id # execution["t2"].workflow_id
    /\ agents["t1"] # agents["t2"]
    /\ Len(execution["t1"].steps) = 1
    /\ Len(execution["t2"].steps) = 2
    /\ execution["t1"].steps[1].status # execution["t2"].steps[1].status

\* ---- C10 ------------------------------------------------------------------
\* C10: in a run over steps without ordering constraints, the calls of
\* execute_task made so far are the steps already passed whose agent is in
\* the map, in declaration order, one call each; a call is made for the step
\* the loop is at, after every earlier step has its outcome.
C10_InvocationOrder ==
    [][\A t \in Threads :
          /\ (Running(t)' /\ NoDeps(workflow'[t].steps)) =>
                [i \in 1..Len(invoked'[t]) |-> invoked'[t][i].step] =
                    PresentSteps(workflow'[t].steps, agents'[t], idx'[t] - 1)
          /\ (Running(t) /\ NoDeps(workflow[t].steps)
                /\ invoked'[t] # invoked[t] /\ Running(t)') =>
                /\ Len(invoked'[t]) = Len(invoked[t]) + 1
                /\ invoked'[t][Len(invoked'[t])].step = idx[t]
                /\ Len(execution[t].steps) = idx[t] - 1]_vars

\* The loop is over for two unconstrained steps: the first was called and
\* failed, the second was called once.
C10_Witness ==
    \E t \in Threads :
        /\ Running(t)
        /\ Len(workflow[t].steps) = 2
        /\ NoDeps(workflow[t].steps)
        /\ idx[t] = 3
        /\ Len(invoked[t]) = 2
        /\ ~invoked[t][1].success
        /\ invoked[t][2].step = 2
====
